---------------------------- MODULE Spec2Model ----------------------------
(***************************************************************************)
(* Fractional differencing (fracdiff/main.c).                              *)
(*                                                                         *)
(* findWeights_ffd builds the weight array of the binomial recurrence and  *)
(* fracDiff convolves a series with it.  Both are modelled statement by    *)
(* statement: one action per loop head, loop body and return.  main calls  *)
(* fracDiff with order d and then with order -d on the result.             *)
(*                                                                         *)
(* Numbers.  A C float is modelled by the rational it denotes, kept as a   *)
(* normalised pair <<numerator, denominator>>.  IEEE-754 arithmetic        *)
(* returns the exact result whenever that result is representable, so the  *)
(* model is the program as long as every value it computes is a binary32   *)
(* number; FloatExact states this and is checked with the claims.  The     *)
(* inputs are drawn from dyadic rationals for that reason (a float is      *)
(* always dyadic).  NaN, infinities and rounding are outside the model.    *)
(*                                                                         *)
(* Arrays keep the source's 0-based indices: functions on 0..len-1.        *)
(***************************************************************************)
EXTENDS Integers, Sequences, FiniteSets, TLC

(***************************************************************************)
(* Bounds of the model.                                                    *)
(***************************************************************************)
\* longest series (len of main, length of findWeights_ffd)
MaxLen == 4
\* largest weight-count cap useNWeights
MaxN == 3

(***************************************************************************)
(* float: rationals <<n, m>> with m > 0 and gcd(|n|, m) = 1.               *)
(***************************************************************************)
RECURSIVE GCD(_, _)
GCD(a, b) == IF b = 0 THEN a ELSE GCD(b, a % b)

AbsInt(n) == IF n < 0 THEN -n ELSE n

Norm(n, m) ==
    LET g == GCD(AbsInt(n), m)
    IN  <<n \div g, m \div g>>

\* conversion int -> float (k in "d-k+1" and "/k", the literals 0 and 1)
FromInt(n) == <<n, 1>>

Zero == FromInt(0)
One == FromInt(1)

\* unary minus
Neg(x) == <<-x[1], x[2]>>

\* x + y
Add(x, y) == Norm(x[1] * y[2] + y[1] * x[2], x[2] * y[2])

\* x - y
Sub(x, y) == Add(x, Neg(y))

\* x * y
Mul(x, y) == Norm(x[1] * y[1], x[2] * y[2])

\* x / y, y # 0 (the only divisor of the program is k >= 1)
Div(x, y) ==
    IF y[1] < 0 THEN Norm(-(x[1] * y[2]), x[2] * (-y[1]))
                ELSE Norm(x[1] * y[2], x[2] * y[1])

\* fabsf
Fabsf(x) == <<AbsInt(x[1]), x[2]>>

\* x <= y
Leq(x, y) == x[1] * y[2] <= y[1] * x[2]

RECURSIVE IsPow2(_)
IsPow2(m) == IF m = 1 THEN TRUE ELSE IF m % 2 # 0 THEN FALSE ELSE IsPow2(m \div 2)

\* x is a binary32 number: 24-bit significand, exponent far inside the range
IsFloat(x) == /\ IsPow2(x[2])
              /\ AbsInt(x[1]) < 16777216
              /\ x[2] <= 1073741824

\* calloc(length, sizeof(float)): length zeros
Calloc(length) == [x \in 0..(length - 1) |-> Zero]

(***************************************************************************)
(* Inputs.                                                                 *)
(***************************************************************************)
\* values of the series elements
SeriesVals == {FromInt(-1), FromInt(2)}

\* differencing orders d
DVals == {FromInt(-2), <<-3, 2>>, FromInt(-1), <<-1, 2>>, Zero,
          <<1, 2>>, One, <<3, 2>>, FromInt(2)}

\* thresholds
ThrVals == {Zero, <<1, 8>>, <<1, 2>>, One, <<5, 2>>}

VARIABLES
    pc,            \* position of the program
    call,          \* which call of fracDiff is running (1 or 2)
    len, series, difflevel, tolerance, tolerance2, useNWeights,   \* main
    fd, fi,        \* main: results of the two calls
    a_series, a_d, a_threshold, a_useNWeights,  \* arguments of the running call
    w, wcount, k, w_curr, iter,                 \* findWeights_ffd
    weights, df_temp, i, j, sum,                \* fracDiff
    w1, wcount1    \* weight array and wcount of the first call, as returned

vars == <<pc, call, len, series, difflevel, tolerance, tolerance2, useNWeights,
          fd, fi, a_series, a_d, a_threshold, a_useNWeights,
          w, wcount, k, w_curr, iter, weights, df_temp, i, j, sum, w1, wcount1>>

mainVars == <<len, series, difflevel, tolerance, tolerance2, useNWeights>>
argVars == <<a_series, a_d, a_threshold, a_useNWeights>>
fwVars == <<w, wcount, k, w_curr, iter>>
fdVars == <<weights, df_temp, i, j, sum>>
ghostVars == <<w1, wcount1>>

(***************************************************************************)
(* findWeights_ffd                                                         *)
(***************************************************************************)
\* while (k < length)
LoopCondMut(kk, length) == kk <= length
LoopCond(kk, length) == kk < length

\* w_curr = (-w[wcount-1]*(d-k+1))/k
RecurrenceMut(wprev, d, kk) ==
    Div(Mul(Neg(wprev), Sub(d, FromInt(kk))), FromInt(kk))
Recurrence(wprev, d, kk) ==
    Div(Mul(Neg(wprev), Add(Sub(d, FromInt(kk)), One)), FromInt(kk))

\* if (fabsf(w_curr) <= threshold) break;
StopThresholdMut(wc, threshold) == Leq(threshold, Fabsf(wc))
StopThreshold(wc, threshold) == Leq(Fabsf(wc), threshold)

\* if (useNWeights > 0 && k >= useNWeights) break;
StopCapMut(kk, n) == kk >= n
StopCapMut2(kk, n) == n > 0 /\ kk > n
StopCap(kk, n) == n > 0 /\ kk >= n

\* calloc, w[0] = 1, wcount = 1, k = 1, w_curr = 1
FwEntry ==
    /\ pc = "fw_entry"
    /\ w' = [Calloc(len) EXCEPT ![0] = One]
    /\ wcount' = 1
    /\ k' = 1
    /\ w_curr' = One
    /\ iter' = 0
    /\ pc' = "fw_loop"
    /\ UNCHANGED <<call, mainVars, fd, fi, argVars, fdVars, ghostVars>>

\* the loop head
FwLoop ==
    /\ pc = "fw_loop"
    /\ IF LoopCond(k, len)
          THEN pc' = "fw_body" /\ iter' = iter + 1
          ELSE pc' = "fw_ret" /\ iter' = iter
    /\ UNCHANGED <<call, mainVars, fd, fi, argVars, w, wcount, k, w_curr,
                   fdVars, ghostVars>>

\* the recurrence: reads w[wcount-1]
FwBody ==
    /\ pc = "fw_body"
    /\ w_curr' = Recurrence(w[wcount - 1], a_d, k)
    /\ pc' = "fw_test"
    /\ UNCHANGED <<call, mainVars, fd, fi, argVars, w, wcount, k, iter,
                   fdVars, ghostVars>>

\* the two breaks, threshold first
FwTest ==
    /\ pc = "fw_test"
    /\ IF StopThreshold(w_curr, a_threshold) THEN pc' = "fw_ret"
       ELSE IF StopCap(k, a_useNWeights) THEN pc' = "fw_ret"
       ELSE pc' = "fw_store"
    /\ UNCHANGED <<call, mainVars, fd, fi, argVars, fwVars, fdVars, ghostVars>>

\* w[wcount] = w_curr; wcount++; k++
FwStore ==
    /\ pc = "fw_store"
    /\ w' = [w EXCEPT ![wcount] = w_curr]
    /\ wcount' = wcount + 1
    /\ k' = k + 1
    /\ pc' = "fw_loop"
    /\ UNCHANGED <<call, mainVars, fd, fi, argVars, w_curr, iter, fdVars, ghostVars>>

(***************************************************************************)
(* fracDiff                                                                *)
(***************************************************************************)
\* for (int j = i; j < len; j++)
InnerCondMut(jj, length) == jj < length - 1
InnerCond(jj, length) == jj < length

\* series[j] * weights[j-i]
Term(s, wt, ii, jj) == Mul(s[jj], wt[jj - ii])

\* findWeights_ffd returns w; df_temp = calloc; i = 0
FwReturn ==
    /\ pc = "fw_ret"
    /\ weights' = w
    /\ df_temp' = Calloc(len)
    /\ i' = 0
    /\ pc' = "fd_outer"
    /\ UNCHANGED <<call, mainVars, fd, fi, argVars, fwVars, j, sum, ghostVars>>

\* for (int i = 0; i < len; i++) { float sum = 0; j = i
FdOuter ==
    /\ pc = "fd_outer"
    /\ IF i < len
          THEN sum' = Zero /\ j' = i /\ pc' = "fd_inner"
          ELSE UNCHANGED <<sum, j>> /\ pc' = "fd_free"
    /\ UNCHANGED <<call, mainVars, fd, fi, argVars, fwVars, weights, df_temp, i,
                   ghostVars>>

\* head of the inner loop; on exit df_temp[i] = sum; i++
FdInner ==
    /\ pc = "fd_inner"
    /\ IF InnerCond(j, len)
          THEN pc' = "fd_acc" /\ UNCHANGED <<df_temp, i>>
          ELSE /\ df_temp' = [df_temp EXCEPT ![i] = sum]
               /\ i' = i + 1
               /\ pc' = "fd_outer"
    /\ UNCHANGED <<call, mainVars, fd, fi, argVars, fwVars, weights, j, sum,
                   ghostVars>>

\* sum += series[j] * weights[j-i]; j++
FdAcc ==
    /\ pc = "fd_acc"
    /\ sum' = Add(sum, Term(a_series, weights, i, j))
    /\ j' = j + 1
    /\ pc' = "fd_inner"
    /\ UNCHANGED <<call, mainVars, fd, fi, argVars, fwVars, weights, df_temp, i,
                   ghostVars>>

\* free(weights); return df_temp
FdReturn ==
    /\ pc = "fd_free"
    /\ IF call = 1
          THEN /\ fd' = df_temp
               /\ w1' = w
               /\ wcount1' = wcount
               /\ pc' = "main_fi"
               /\ UNCHANGED fi
          ELSE /\ fi' = df_temp
               /\ pc' = "main_done"
               /\ UNCHANGED <<fd, ghostVars>>
    /\ UNCHANGED <<call, mainVars, argVars, fwVars, fdVars>>

(***************************************************************************)
(* main                                                                    *)
(***************************************************************************)
\* the order of the second call: -difflevel
InverseOrderMut(d) == d
InverseOrder(d) == Neg(d)

\* fd = fracDiff(series, len, difflevel, tolerance, useNWeights)
MainCallFd ==
    /\ pc = "main_fd"
    /\ call' = 1
    /\ a_series' = series
    /\ a_d' = difflevel
    /\ a_threshold' = tolerance
    /\ a_useNWeights' = useNWeights
    /\ pc' = "fw_entry"
    /\ UNCHANGED <<mainVars, fd, fi, fwVars, fdVars, ghostVars>>

\* fi = fracDiff(fd, len, -difflevel, tolerance, useNWeights)
MainCallFi ==
    /\ pc = "main_fi"
    /\ call' = 2
    /\ a_series' = fd
    /\ a_d' = InverseOrder(difflevel)
    /\ a_threshold' = tolerance
    /\ a_useNWeights' = useNWeights
    /\ pc' = "fw_entry"
    /\ UNCHANGED <<mainVars, fd, fi, fwVars, fdVars, ghostVars>>

\* the same series and order again under a threshold tolerance2 >= tolerance
MainCallAgain ==
    /\ pc = "main_fi"
    /\ call' = 2
    /\ a_series' = series
    /\ a_d' = difflevel
    /\ a_threshold' = tolerance2
    /\ a_useNWeights' = useNWeights
    /\ pc' = "fw_entry"
    /\ UNCHANGED <<mainVars, fd, fi, fwVars, fdVars, ghostVars>>

InitCommon ==
    /\ pc = "main_fd"
    /\ call = 0
    /\ len \in 1..MaxLen
    /\ series \in [0..(len - 1) -> SeriesVals]
    /\ difflevel \in DVals
    /\ tolerance \in ThrVals
    /\ useNWeights \in 0..MaxN
    /\ fd = Calloc(len)
    /\ fi = Calloc(len)
    /\ a_series = series
    /\ a_d = difflevel
    /\ a_threshold = tolerance
    /\ a_useNWeights = useNWeights
    /\ w = Calloc(len)
    /\ wcount = 0
    /\ k = 0
    /\ w_curr = Zero
    /\ iter = 0
    /\ weights = Calloc(len)
    /\ df_temp = Calloc(len)
    /\ i = 0
    /\ j = 0
    /\ sum = Zero
    /\ w1 = Calloc(len)
    /\ wcount1 = 0

Init == InitCommon /\ tolerance2 = tolerance

InitMono == InitCommon /\ tolerance2 \in ThrVals /\ Leq(tolerance, tolerance2)

Steps ==
    \/ MainCallFd
    \/ FwEntry
    \/ FwLoop
    \/ FwBody
    \/ FwTest
    \/ FwStore
    \/ FwReturn
    \/ FdOuter
    \/ FdInner
    \/ FdAcc
    \/ FdReturn

Next == Steps \/ MainCallFi

NextMono == Steps \/ MainCallAgain

\* main: difference with d, then with -d
Spec == Init /\ [][Next]_vars

\* fracDiff applied twice to one series, the second time under a threshold
\* at least as large
SpecMono == InitMono /\ [][NextMono]_vars

(***************************************************************************)
(* Every value the program computes is a binary32 number, so no operation  *)
(* rounds and the rational model is the float program on these inputs.     *)
(***************************************************************************)
FloatExact ==
    /\ \A x \in DOMAIN w : IsFloat(w[x])
    /\ \A x \in DOMAIN weights : IsFloat(weights[x])
    /\ \A x \in DOMAIN df_temp : IsFloat(df_temp[x])
    /\ \A x \in DOMAIN a_series : IsFloat(a_series[x])
    /\ IsFloat(w_curr) /\ IsFloat(sum) /\ IsFloat(a_d) /\ IsFloat(a_threshold)
    /\ pc = "fw_body" =>
          /\ IsFloat(Add(Sub(a_d, FromInt(k)), One))
          /\ IsFloat(Mul(Neg(w[wcount - 1]), Add(Sub(a_d, FromInt(k)), One)))
    /\ pc = "fd_acc" => IsFloat(Mul(a_series[j], weights[j - i]))

(***************************************************************************)
(* Reference values the claims are stated with.                            *)
(***************************************************************************)
\* the kk-th value of the recurrence weight[k] = -weight[k-1]*(d-k+1)/k
RECURSIVE RecW(_, _)
RecW(d, kk) ==
    IF kk = 0 THEN <<1, 1>>
    ELSE LET p == RecW(d, kk - 1)
             f == Norm((d[1] - (kk - 1) * d[2]) * (-p[1]), d[2] * p[2])
         IN  Norm(f[1], f[2] * kk)

\* sum over jj = lo..hi of s[jj] * wt[jj - ii]
RECURSIVE ConvSum(_, _, _, _, _)
ConvSum(s, wt, ii, lo, hi) ==
    IF lo > hi THEN <<0, 1>>
    ELSE LET r == ConvSum(s, wt, ii, lo + 1, hi)
             t == Norm(s[lo][1] * wt[lo - ii][1], s[lo][2] * wt[lo - ii][2])
         IN  Norm(t[1] * r[2] + r[1] * t[2], t[2] * r[2])

\* s[lo] + ... + s[hi]
RECURSIVE SuffixSum(_, _, _)
SuffixSum(s, lo, hi) ==
    IF lo > hi THEN <<0, 1>>
    ELSE LET r == SuffixSum(s, lo + 1, hi)
         IN  Norm(s[lo][1] * r[2] + r[1] * s[lo][2], s[lo][2] * r[2])

Min(a, b) == IF a < b THEN a ELSE b

\* x < y
Less(x, y) == x[1] * y[2] < y[1] * x[2]

\* the recurrence values at 1..hi are all nonzero
NoZeroUpTo(d, hi) == \A kk \in 1..hi : RecW(d, kk) # <<0, 1>>

(***************************************************************************)
(* Claims.  Those about one call of fracDiff are stated where the call is  *)
(* about to return (pc = "fd_free"), those about findWeights_ffd where it  *)
(* is about to return (pc = "fw_ret"); they cover both calls of main.      *)
(***************************************************************************)

\* C1: fracDiff returns an array of exactly len elements with
\* output[i] = sum over j = i..len-1 of series[j] * weight[j-i], weight being
\* the array findWeights_ffd returned; output[len-1] = series[len-1].
C1_Convolution ==
    pc = "fd_free" =>
        /\ DOMAIN df_temp = 0..(len - 1)
        /\ \A ii \in 0..(len - 1) :
              df_temp[ii] = ConvSum(a_series, w, ii, ii, len - 1)
        /\ df_temp[len - 1] = a_series[len - 1]

C1_Witness ==
    /\ pc = "fd_free" /\ call = 1 /\ len >= 3
    /\ a_d = <<1, 2>> /\ a_threshold = <<0, 1>> /\ a_useNWeights = 0
    /\ df_temp[0] # a_series[0]

\* C2: the array findWeights_ffd returns has weight[0] = 1, every committed
\* index k in 1..wcount-1 holds -weight[k-1]*(d-k+1)/k, every index from
\* wcount on is zero, and for length 1 it is [1].
C2_Weights ==
    pc = "fw_ret" =>
        /\ wcount \in 1..len
        /\ DOMAIN w = 0..(len - 1)
        /\ w[0] = <<1, 1>>
        /\ \A kk \in 1..(wcount - 1) :
              LET f == Norm((a_d[1] - (kk - 1) * a_d[2]) * (-w[kk - 1][1]),
                            a_d[2] * w[kk - 1][2])
              IN  w[kk] = Norm(f[1], f[2] * kk)
        /\ \A kk \in wcount..(len - 1) : w[kk] = <<0, 1>>
        /\ len = 1 => w = [x \in {0} |-> <<1, 1>>]

C2_Witness ==
    /\ pc = "fw_ret" /\ wcount >= 3 /\ wcount < len
    /\ w_curr # <<0, 1>> /\ w[wcount - 1] # <<0, 1>>

\* C3: with threshold 0 and useNWeights 0, fracDiff with order d followed by
\* fracDiff with order -d gives the original series back at every index.
C3_RoundTrip ==
    (pc = "main_done" /\ tolerance = <<0, 1>> /\ useNWeights = 0) => fi = series

C3_Witness ==
    /\ pc = "main_done" /\ tolerance = <<0, 1>> /\ useNWeights = 0
    /\ len >= 3 /\ difflevel = <<1, 2>>
    /\ \A x \in 0..(len - 2) : fd[x] # series[x]
    /\ fi = series

\* C4: with d = 1, threshold 0 and useNWeights 0, output[i] is
\* series[i] - series[i+1] for i < len-1 and output[len-1] is series[len-1].
C4_FirstDifference ==
    (pc = "fd_free" /\ a_d = <<1, 1>> /\ a_threshold = <<0, 1>>
        /\ a_useNWeights = 0) =>
        /\ \A ii \in 0..(len - 2) :
              df_temp[ii] = Norm(a_series[ii][1] * a_series[ii + 1][2]
                                   - a_series[ii + 1][1] * a_series[ii][2],
                                 a_series[ii][2] * a_series[ii + 1][2])
        /\ df_temp[len - 1] = a_series[len - 1]

C4_Witness ==
    /\ pc = "fd_free" /\ call = 1 /\ a_d = <<1, 1>> /\ a_threshold = <<0, 1>>
    /\ a_useNWeights = 0 /\ len >= 3
    /\ a_series[0] = <<2, 1>> /\ a_series[1] = <<-1, 1>> /\ df_temp[0] = <<3, 1>>

\* C5: with d = -1, threshold 0 and useNWeights 0, output[i] is
\* series[i] + series[i+1] + ... + series[len-1], all len weights being 1.
C5_CumulativeSum ==
    (pc = "fd_free" /\ a_d = <<-1, 1>> /\ a_threshold = <<0, 1>>
        /\ a_useNWeights = 0) =>
        /\ \A ii \in 0..(len - 1) : df_temp[ii] = SuffixSum(a_series, ii, len - 1)
        /\ \A kk \in 0..(len - 1) : weights[kk] = <<1, 1>>

C5_Witness ==
    /\ pc = "fd_free" /\ call = 1 /\ a_d = <<-1, 1>> /\ a_threshold = <<0, 1>>
    /\ a_useNWeights = 0 /\ len >= 3
    /\ \A x \in 0..(len - 1) : a_series[x] = <<2, 1>>
    /\ df_temp[0] = <<2 * len, 1>>

\* C6 as stated: with threshold 0 (and useNWeights 0) findWeights_ffd runs
\* its loop for every k in 1..length-1 and commits a weight at each, so
\* wcount = length on return.
C6_Original ==
    (pc = "fw_ret" /\ a_threshold = <<0, 1>> /\ a_useNWeights = 0) =>
        wcount = len

\* C6 amended: with threshold 0 and useNWeights 0 the magnitude test stops
\* the loop early only at an index whose recurrence value is exactly zero;
\* the later recurrence values are zero as well, so the returned array is the
\* full recurrence sequence at every index, and wcount = length whenever no
\* recurrence value at 1..length-1 is zero.
C6_Amended ==
    (pc = "fw_ret" /\ a_threshold = <<0, 1>> /\ a_useNWeights = 0) =>
        /\ \A kk \in 0..(len - 1) : w[kk] = RecW(a_d, kk)
        /\ wcount < len => (w_curr = <<0, 1>> /\ RecW(a_d, wcount) = <<0, 1>>)
        /\ NoZeroUpTo(a_d, len - 1) => (wcount = len /\ iter = len - 1)

C6_Witness ==
    /\ pc = "fw_ret" /\ a_threshold = <<0, 1>> /\ a_useNWeights = 0
    /\ a_d = <<1, 1>> /\ len >= 4 /\ wcount = 2
    /\ w[1] = <<-1, 1>> /\ w[2] = <<0, 1>>

\* C7: with useNWeights = m, 1 <= m <= length, threshold 0 and no zero
\* recurrence value before index m, exactly m weights are committed: indices
\* 0..m-1 hold the recurrence values, every index >= m is zero, and
\* output[i] sums series[j]*weight[j-i] over j = i..min(i+m-1, len-1) only;
\* with useNWeights = 0 there is no cap.
C7_Cap ==
    /\ (pc = "fd_free" /\ a_threshold = <<0, 1>> /\ a_useNWeights >= 1
          /\ a_useNWeights <= len /\ NoZeroUpTo(a_d, a_useNWeights - 1)) =>
          /\ wcount = a_useNWeights
          /\ \A kk \in 0..(a_useNWeights - 1) : weights[kk] = RecW(a_d, kk)
          /\ \A kk \in a_useNWeights..(len - 1) : weights[kk] = <<0, 1>>
          /\ \A ii \in 0..(len - 1) :
                df_temp[ii] =
                    ConvSum(a_series, [x \in 0..(len - 1) |-> RecW(a_d, x)], ii, ii,
                            Min(ii + a_useNWeights - 1, len - 1))
    /\ (pc = "fd_free" /\ a_threshold = <<0, 1>> /\ a_useNWeights = 0
          /\ NoZeroUpTo(a_d, len - 1)) =>
          wcount = len

C7_Witness ==
    /\ pc = "fd_free" /\ call = 1 /\ a_threshold = <<0, 1>> /\ a_useNWeights = 2
    /\ len = 4 /\ a_d = <<1, 2>> /\ wcount = 2
    /\ weights[1] = <<-1, 2>> /\ weights[2] = <<0, 1>>

\* C8: for fixed d, length and useNWeights and thresholds t1 <= t2, wcount
\* under t2 is at most wcount under t1 and the weights committed under t2
\* are a prefix of those committed under t1; once threshold >= |weight[1]|
\* only weight[0] survives and output[i] = series[i] for every i.
C8_ThresholdMonotone ==
    /\ (pc = "main_done" /\ Leq(tolerance, tolerance2)) =>
          /\ wcount <= wcount1
          /\ \A kk \in 0..(wcount - 1) : w[kk] = w1[kk]
    /\ (pc = "fd_free" /\ Leq(Fabsf(RecW(a_d, 1)), a_threshold)) =>
          /\ wcount = 1
          /\ \A kk \in 1..(len - 1) : weights[kk] = <<0, 1>>
          /\ df_temp = a_series

C8_Witness ==
    /\ pc = "main_done" /\ len = 4 /\ difflevel = <<1, 2>> /\ useNWeights = 0
    /\ tolerance = <<0, 1>> /\ tolerance2 = <<1, 8>>
    /\ wcount1 = 4 /\ wcount = 2 /\ w[1] = w1[1]

\* C9: for threshold t > 0 and useNWeights 0 a weight at index k of the
\* array fracDiff applies is zero exactly when the magnitude of its
\* recurrence value is less than t, and every other weight keeps its
\* recurrence value.
C9_Claim ==
    (pc = "fd_free" /\ Less(<<0, 1>>, a_threshold) /\ a_useNWeights = 0) =>
        \A kk \in 0..(len - 1) :
            /\ (weights[kk] = <<0, 1>>) <=> Less(Fabsf(RecW(a_d, kk)), a_threshold)
            /\ weights[kk] # <<0, 1>> => weights[kk] = RecW(a_d, kk)

\* C10: every array access stays inside its allocation: at each loop head of
\* findWeights_ffd wcount = k and 1 <= k <= length, the read w[wcount-1] and
\* the write w[wcount] use indices in 0..length-1, every read series[j] and
\* weights[j-i] of fracDiff has 0 <= j-i <= j <= len-1, and the loop of
\* findWeights_ffd runs at most length-1 times.
C10_InBounds ==
    /\ pc = "fw_loop" => (wcount = k /\ 1 <= k /\ k <= len)
    /\ pc = "fw_body" => (wcount - 1) \in DOMAIN w
    /\ pc = "fw_store" => wcount \in DOMAIN w
    /\ pc \in {"fw_loop", "fw_body", "fw_test", "fw_store", "fw_ret"} =>
          /\ DOMAIN w = 0..(len - 1)
          /\ iter <= len - 1
    /\ pc = "fd_acc" =>
          /\ 0 <= j - i /\ j - i <= j /\ j <= len - 1
          /\ j \in DOMAIN a_series
          /\ (j - i) \in DOMAIN weights
          /\ DOMAIN a_series = 0..(len - 1)
          /\ DOMAIN weights = 0..(len - 1)

C10_Witness ==
    /\ pc = "fd_acc" /\ len = 4 /\ i = 1 /\ j = 3 /\ iter = 3 /\ wcount = 4

=============================================================================
